---- MODULE Spec2Model ----
(***************************************************************************)
(* Mini-CRM lead distribution (src/mini_crm/main.py, src/mini_crm/models.py) *)
(*                                                                         *)
(* The store (operators, sources, operator_source_weights, leads,          *)
(* contacts) and the request handlers of the service.  Every handler that  *)
(* issues one commit is one action.  create_contact is a chain of          *)
(* statements against the store, each of them a suspension point, run by   *)
(* NumProcs concurrent workers with a session each:                        *)
(*    begin   source query + lead query            (main.py 339-345,155-159)*)
(*    lead    INSERT of the lead or UPDATE of its name, commit (160-171)   *)
(*    choose  choose_operator_for_source, a read of the store    (174-217) *)
(*    insert  INSERT of the contact, commit                      (355-365) *)
(***************************************************************************)
EXTENDS Integers, Sequences, FiniteSets, TLC

VARIABLES operators, sources, weights, leads, contacts, clock, req, resp

vars == <<operators, sources, weights, leads, contacts, clock, req, resp>>

----------------------------------------------------------------------------
(* Bounds of the model *)

MaxOps      == 2   \* operators that create_operator may create
MaxSources  == 1   \* sources that create_source may create
MaxLimit    == 2   \* load_limit ranges over 1..MaxLimit
MaxWeight   == 3   \* the largest weight set_weight is given
MaxContacts == 2   \* contact rows (stored plus in flight)
NumProcs    == 2   \* concurrent request workers
RScale      == 2   \* the draw r is a multiple of 1/RScale

\* NULL in an integer id column; autoincrement ids start at 1
NoId == 0
\* None for Optional[str] values (lead name, payload)
NoStr == "<None>"

Procs       == 1..NumProcs
OperatorIds == 1..MaxOps
SourceIds   == 1..MaxSources
LoadLimits  == 1..MaxLimit
WeightVals  == {-1, 0, 1, MaxWeight}
ExternalIds == {"u1", "u2"}
Names       == {NoStr, "", "Alice", "Bob"}
Payloads    == {NoStr, "text"}
Statuses    == {"active", "closed"}

\* Optional[T] of a request body: <<>> is "not supplied", <<x>> is x
Optional(S) == {<<>>} \cup {<<x>> : x \in S}

----------------------------------------------------------------------------
(* Helpers *)

\* Python truthiness of an Optional[str]: None and "" are falsy
Truthy(s) == s # NoStr /\ s # ""

\* NeedsBackfill without the test of the stored name
NeedsBackfillAnyStored(name, stored) == Truthy(name)

\* "if name and not lead.name": whether the stored name is back-filled
NeedsBackfill(name, stored) == Truthy(name) /\ ~Truthy(stored)

RECURSIVE SumWeights(_)
SumWeights(cands) ==
    IF cands = <<>> THEN 0 ELSE Head(cands)[2] + SumWeights(Tail(cands))

\* LeadByExternalId that never finds the row
LeadLookupMiss(ext) == NoId

\* db.query(Lead).filter(external_id == ext).first(): the id or NoId
LeadByExternalId(ext) ==
    IF \E i \in DOMAIN leads : leads[i].external_id = ext
    THEN CHOOSE i \in DOMAIN leads : leads[i].external_id = ext
    ELSE NoId

\* ExternalIdTaken with the unique constraint missing
ExternalIdNeverTaken(ext) == FALSE

\* the unique constraint on leads.external_id: whether a row holds it
ExternalIdTaken(ext) == \E i \in DOMAIN leads : leads[i].external_id = ext

\* ActiveCountIn that counts the closed rows as well
ActiveCountAnyStatus(cs, op) ==
    Cardinality({i \in DOMAIN cs : cs[i].operator_id = op})

\* count of the rows of cs with that operator_id and status active
ActiveCountIn(cs, op) ==
    Cardinality({i \in DOMAIN cs :
                    /\ cs[i].operator_id = op
                    /\ cs[i].status = "active"})

\* count of Contact rows with that operator_id and status active
ActiveCount(op) == ActiveCountIn(contacts, op)

\* WeightRows without the filter on Operator.is_active
WeightRowsAnyOperator(sid) ==
    {o \in DOMAIN operators : <<o, sid>> \in DOMAIN weights}

\* the Weight rows of the source joined with an active Operator:
\* the operator ids of the rows the query returns
WeightRows(sid) ==
    {o \in DOMAIN operators :
        /\ <<o, sid>> \in DOMAIN weights
        /\ operators[o].is_active}

\* .all() gives the rows in an order the query does not state
Orders(S) ==
    {f \in [1..Cardinality(S) -> S] : \A i, j \in DOMAIN f : f[i] = f[j] => i = j}

\* IsCandidate with the capacity test off by one (<= for <)
IsCandidateAtLimit(op, sid) ==
    /\ weights[<<op, sid>>] > 0
    /\ ActiveCount(op) <= operators[op].load_limit

\* IsCandidate without the test that skips weight <= 0
IsCandidateAnyWeight(op, sid) ==
    ActiveCount(op) < operators[op].load_limit

\* IsCandidate without the capacity test
IsCandidateAnyLoad(op, sid) == weights[<<op, sid>>] > 0

\* whether row (op, sid) passes the filter of the for loop
IsCandidate(op, sid) ==
    /\ weights[<<op, sid>>] > 0
    /\ ActiveCount(op) < operators[op].load_limit

\* the for loop over the rows: the candidates, in the rows' order
RECURSIVE Candidates(_, _)
Candidates(rows, sid) ==
    IF rows = <<>> THEN <<>>
    ELSE LET op   == Head(rows)
             rest == Candidates(Tail(rows), sid)
         IN  IF IsCandidate(op, sid)
             THEN <<<<op, weights[<<op, sid>>]>>>> \o rest
             ELSE rest

\* PickLoop with a strict comparison (> for >=)
RECURSIVE PickLoopStrict(_, _, _, _)
PickLoopStrict(cands, i, upto, r) ==
    IF i > Len(cands) THEN i
    ELSE IF (upto + cands[i][2]) * RScale > r THEN i
         ELSE PickLoopStrict(cands, i + 1, upto + cands[i][2], r)

\* PickLoop that does not add the weights it passed to upto
RECURSIVE PickLoopNoCarry(_, _, _, _)
PickLoopNoCarry(cands, i, upto, r) ==
    IF i > Len(cands) THEN i
    ELSE IF (upto + cands[i][2]) * RScale >= r THEN i
         ELSE PickLoopNoCarry(cands, i + 1, upto, r)

\* the accumulation loop: the index of the candidate it returns at, or
\* Len(cands) + 1 when it runs off the end.  r is in units of 1/RScale.
RECURSIVE PickLoop(_, _, _, _)
PickLoop(cands, i, upto, r) ==
    IF i > Len(cands) THEN i
    ELSE IF (upto + cands[i][2]) * RScale >= r THEN i
         ELSE PickLoop(cands, i + 1, upto + cands[i][2], r)

\* PickOperator that ignores the weights: the interval of the draw is cut
\* into Len(cands) equal parts, one for each candidate
PickOperatorUniform(cands, r) ==
    LET i == (r * Len(cands)) \div (SumWeights(cands) * RScale) + 1
    IN  IF i <= Len(cands) THEN cands[i][1] ELSE cands[Len(cands)][1]

\* the operator returned for a non-empty candidate list and draw r
PickOperator(cands, r) ==
    LET i == PickLoop(cands, 1, 0, r)
    IN  IF i <= Len(cands) THEN cands[i][1] ELSE cands[Len(cands)][1]

\* the values random.uniform(0, total_weight) ranges over, in 1/RScale
Draws(total) == 0..(total * RScale)

----------------------------------------------------------------------------
(* State *)

Idle == [pc |-> "idle", external_id |-> NoStr, name |-> NoStr,
         source_id |-> NoId, payload |-> NoStr, lead_id |-> NoId,
         operator_id |-> NoId, candidates |-> <<>>, r |-> 0]

Init ==
    /\ operators = <<>>
    /\ sources = {}
    /\ weights = <<>>
    /\ leads = <<>>
    /\ contacts = <<>>
    /\ clock = 0
    /\ req = [p \in Procs |-> Idle]
    /\ resp = [p \in Procs |-> "none"]

store == <<operators, sources, weights, leads, contacts, clock>>

----------------------------------------------------------------------------
(* Management handlers *)

create_operator(load_limit) ==
    /\ Len(operators) < MaxOps
    /\ operators' = Append(operators, [is_active |-> TRUE, load_limit |-> load_limit])
    /\ UNCHANGED <<sources, weights, leads, contacts, clock, req, resp>>

\* update_operator that enforces a lowered load limit at once: when the new
\* limit is below the operator's active count, its contacts are unassigned
update_operator_retroactive(operator_id, load_limit, is_active) ==
    /\ operator_id \in DOMAIN operators
    /\ operators' = [operators EXCEPT ![operator_id] =
            [is_active  |-> IF is_active = <<>> THEN @.is_active ELSE is_active[1],
             load_limit |-> IF load_limit = <<>> THEN @.load_limit ELSE load_limit[1]]]
    /\ contacts' =
          IF load_limit # <<>> /\ ActiveCount(operator_id) > operators'[operator_id].load_limit
          THEN [c \in DOMAIN contacts |->
                   IF contacts[c].operator_id = operator_id
                   THEN [contacts[c] EXCEPT !.operator_id = NoId]
                   ELSE contacts[c]]
          ELSE contacts
    /\ UNCHANGED <<sources, weights, leads, clock, req, resp>>

update_operator(operator_id, load_limit, is_active) ==
    /\ operator_id \in DOMAIN operators
    /\ operators' = [operators EXCEPT ![operator_id] =
            [is_active  |-> IF is_active = <<>> THEN @.is_active ELSE is_active[1],
             load_limit |-> IF load_limit = <<>> THEN @.load_limit ELSE load_limit[1]]]
    /\ UNCHANGED <<sources, weights, leads, contacts, clock, req, resp>>

create_source ==
    /\ sources' = sources \cup {Cardinality(sources) + 1}
    /\ UNCHANGED <<operators, weights, leads, contacts, clock, req, resp>>

\* the row of the pair is created or its weight overwritten; any integer
\* weight is stored.  The foreign keys hold: both ids name existing rows.
set_weight(operator_id, source_id, weight) ==
    /\ operator_id \in DOMAIN operators
    /\ source_id \in sources
    /\ weights' = [k \in DOMAIN weights \cup {<<operator_id, source_id>>} |->
                      IF k = <<operator_id, source_id>> THEN weight ELSE weights[k]]
    /\ UNCHANGED <<operators, sources, leads, contacts, clock, req, resp>>

----------------------------------------------------------------------------
(* create_contact *)

\* as create_contact_begin, with get_or_create_lead run before the source is
\* looked up: the lead row is written even when the source does not exist
create_contact_begin_lead_first(p, external_id, name, source_id, payload) ==
    /\ req[p].pc = "idle"
    /\ IF source_id \notin sources
       THEN /\ resp' = [resp EXCEPT ![p] = "not_found"]
            /\ leads' = IF ExternalIdTaken(external_id) THEN leads
                        ELSE Append(leads, [external_id |-> external_id,
                                            name |-> name])
            /\ UNCHANGED req
       ELSE LET lead == LeadByExternalId(external_id)
                r0   == [Idle EXCEPT !.external_id = external_id, !.name = name,
                                     !.source_id = source_id, !.payload = payload,
                                     !.lead_id = lead]
            IN  /\ resp' = [resp EXCEPT ![p] = "pending"]
                /\ req' = [req EXCEPT ![p] =
                      IF lead = NoId THEN [r0 EXCEPT !.pc = "lead_insert"]
                      ELSE IF NeedsBackfill(name, leads[lead].name)
                           THEN [r0 EXCEPT !.pc = "lead_update"]
                           ELSE [r0 EXCEPT !.pc = "choose"]]
                /\ UNCHANGED leads
    /\ UNCHANGED <<operators, sources, weights, contacts, clock>>

\* the source query, then the lead query of get_or_create_lead
create_contact_begin(p, external_id, name, source_id, payload) ==
    /\ req[p].pc = "idle"
    /\ IF source_id \notin sources
       THEN /\ resp' = [resp EXCEPT ![p] = "not_found"]
            /\ UNCHANGED req
       ELSE LET lead == LeadByExternalId(external_id)
                r0   == [Idle EXCEPT !.external_id = external_id, !.name = name,
                                     !.source_id = source_id, !.payload = payload,
                                     !.lead_id = lead]
            IN  /\ resp' = [resp EXCEPT ![p] = "pending"]
                /\ req' = [req EXCEPT ![p] =
                      IF lead = NoId THEN [r0 EXCEPT !.pc = "lead_insert"]
                      ELSE IF NeedsBackfill(name, leads[lead].name)
                           THEN [r0 EXCEPT !.pc = "lead_update"]
                           ELSE [r0 EXCEPT !.pc = "choose"]]
    /\ UNCHANGED store

\* db.add(lead); db.commit(): external_id is unique, a second row with the
\* same external_id fails the commit and the request ends with that error
lead_insert(p) ==
    /\ req[p].pc = "lead_insert"
    /\ IF ExternalIdTaken(req[p].external_id)
       THEN /\ req' = [req EXCEPT ![p] = Idle]
            /\ resp' = [resp EXCEPT ![p] = "integrity_error"]
            /\ UNCHANGED leads
       ELSE /\ leads' = Append(leads, [external_id |-> req[p].external_id,
                                       name |-> req[p].name])
            /\ req' = [req EXCEPT ![p].pc = "choose", ![p].lead_id = Len(leads) + 1]
            /\ UNCHANGED resp
    /\ UNCHANGED <<operators, sources, weights, contacts, clock>>

\* lead.name = name; db.commit(): the UPDATE of the row read by the lead query
lead_update(p) ==
    /\ req[p].pc = "lead_update"
    /\ leads' = [leads EXCEPT ![req[p].lead_id].name = req[p].name]
    /\ req' = [req EXCEPT ![p].pc = "choose"]
    /\ UNCHANGED <<operators, sources, weights, contacts, clock, resp>>

\* choose_operator_for_source: rows is the order the weight rows come in,
\* r the value of random.uniform
choose_operator_for_source(p, rows, r) ==
    /\ req[p].pc = "choose"
    /\ rows \in Orders(WeightRows(req[p].source_id))
    /\ LET cands == Candidates(rows, req[p].source_id)
       IN  IF cands = <<>>
           THEN /\ r = 0
                /\ req' = [req EXCEPT ![p].pc = "insert", ![p].operator_id = NoId]
           ELSE /\ r \in Draws(SumWeights(cands))
                /\ req' = [req EXCEPT ![p].pc = "insert",
                                      ![p].operator_id = PickOperator(cands, r),
                                      ![p].candidates = cands,
                                      ![p].r = r]
    /\ UNCHANGED <<store, resp>>

\* choose_operator_for_source called on its own, with any source_id, as the
\* tests call it: the value it returns is the answer, None or an operator
choose_operator_call(p, source_id, rows, r) ==
    /\ req[p].pc = "idle"
    /\ rows \in Orders(WeightRows(source_id))
    /\ LET cands == Candidates(rows, source_id)
       IN  IF cands = <<>>
           THEN /\ r = 0
                /\ resp' = [resp EXCEPT ![p] = "selected_none"]
           ELSE /\ r \in Draws(SumWeights(cands))
                /\ resp' = [resp EXCEPT ![p] = "selected"]
    /\ UNCHANGED <<store, req>>

\* the row create_contact stores for worker p
NewContact(p, operator_id, status) ==
    [lead_id |-> req[p].lead_id, source_id |-> req[p].source_id,
     operator_id |-> operator_id, status |-> status,
     payload |-> req[p].payload, created_at |-> clock]

\* contact_insert that reads the active count again and leaves the contact
\* unassigned when the operator is at its limit
contact_insert_recheck(p) ==
    /\ req[p].pc = "insert"
    /\ LET o == req[p].operator_id
       IN  contacts' = Append(contacts,
               NewContact(p, IF o # NoId /\ ActiveCount(o) >= operators[o].load_limit
                             THEN NoId ELSE o, "active"))
    /\ clock' = clock + 1
    /\ req' = [req EXCEPT ![p] = Idle]
    /\ resp' = [resp EXCEPT ![p] = "ok"]
    /\ UNCHANGED <<operators, sources, weights, leads>>

\* contact_insert that reads operator.id without the test for None and
\* fails when no operator was chosen
contact_insert_needs_operator(p) ==
    /\ req[p].pc = "insert"
    /\ IF req[p].operator_id = NoId
       THEN /\ resp' = [resp EXCEPT ![p] = "error"]
            /\ UNCHANGED <<contacts, clock>>
       ELSE /\ contacts' = Append(contacts, NewContact(p, req[p].operator_id, "active"))
            /\ clock' = clock + 1
            /\ resp' = [resp EXCEPT ![p] = "ok"]
    /\ req' = [req EXCEPT ![p] = Idle]
    /\ UNCHANGED <<operators, sources, weights, leads>>

\* contact_insert that stores the contact as closed
contact_insert_closed(p) ==
    /\ req[p].pc = "insert"
    /\ contacts' = Append(contacts, NewContact(p, req[p].operator_id, "closed"))
    /\ clock' = clock + 1
    /\ req' = [req EXCEPT ![p] = Idle]
    /\ resp' = [resp EXCEPT ![p] = "ok"]
    /\ UNCHANGED <<operators, sources, weights, leads>>

\* db.add(db_contact); db.commit()
contact_insert(p) ==
    /\ req[p].pc = "insert"
    /\ contacts' = Append(contacts, NewContact(p, req[p].operator_id, "active"))
    /\ clock' = clock + 1
    /\ req' = [req EXCEPT ![p] = Idle]
    /\ resp' = [resp EXCEPT ![p] = "ok"]
    /\ UNCHANGED <<operators, sources, weights, leads>>

----------------------------------------------------------------------------
(* update_contact_status *)

\* update_contact_status that also takes the operator off a closed contact
update_contact_status_unassign(contact_id, status) ==
    /\ contact_id \in DOMAIN contacts
    /\ contacts' = [contacts EXCEPT
          ![contact_id].status = status,
          ![contact_id].operator_id =
              IF status = "closed" THEN NoId ELSE contacts[contact_id].operator_id]
    /\ UNCHANGED <<operators, sources, weights, leads, clock, req, resp>>

update_contact_status(contact_id, status) ==
    /\ contact_id \in DOMAIN contacts
    /\ contacts' = [contacts EXCEPT ![contact_id].status = status]
    /\ UNCHANGED <<operators, sources, weights, leads, clock, req, resp>>

----------------------------------------------------------------------------
(* Specifications *)

\* The requests of the service, over the inputs drawn from the given sets.

\* operator management, load limits from L
OperatorRequests(L) ==
    \/ \E ll \in L : create_operator(ll)
    \/ \E o \in OperatorIds, ll \in Optional(L), a \in Optional(BOOLEAN) :
          update_operator(o, ll, a)

\* create_source, until K sources exist
SourceRequests(K) == Cardinality(sources) < K /\ create_source

\* operator management that never lowers a load limit
OperatorRequestsRaising(L) ==
    \/ \E ll \in L : create_operator(ll)
    \/ \E o \in DOMAIN operators, ll \in Optional(L), a \in Optional(BOOLEAN) :
          /\ IF ll = <<>> THEN TRUE ELSE ll[1] >= operators[o].load_limit
          /\ update_operator(o, ll, a)

\* weight management for the existing sources, weights from W
WeightRequests(W) ==
    \E o \in OperatorIds, s \in sources, w \in W : set_weight(o, s, w)

\* the source ids of the requests: the existing ones and one that is not
AnySourceIds == SourceIds \cup {MaxSources + 1}

\* the contact rows stored and the requests about to store one
InFlight == Cardinality({q \in Procs : req[q].pc # "idle"})

\* create_contact of the workers P, with external ids E, lead names N,
\* source ids S and payloads PL, until K contacts are stored or in flight.
\* The name back-fill is LeadBackfill: it needs a falsy and a truthy name.
ContactRequests(P, E, N, S, PL, K) ==
    \/ /\ Len(contacts) + InFlight < K
       /\ \E p \in P, e \in E, n \in N, s \in S, pl \in PL :
             create_contact_begin(p, e, n, s, pl)
    \/ \E p \in P : lead_insert(p)
    \/ \E p \in P : \E rows \in Orders(WeightRows(req[p].source_id)),
          r \in Draws(MaxOps * MaxWeight) : choose_operator_for_source(p, rows, r)
    \/ \E p \in P : contact_insert(p)

LeadBackfill(P) == \E p \in P : lead_update(p)

\* update_contact_status, statuses from ST
StatusRequests(ST) ==
    \E c \in DOMAIN contacts, st \in ST : update_contact_status(c, st)

\* choose_operator_for_source called on its own by the workers P for the
\* source ids S
SelectRequests(P, S) ==
    \E p \in P, s \in S : \E rows \in Orders(WeightRows(s)),
        r \in Draws(MaxOps * MaxWeight) : choose_operator_call(p, s, rows, r)

\* every request of the service, every input of the model
Next ==
    \/ SourceRequests(MaxSources)
    \/ OperatorRequests(LoadLimits)
    \/ WeightRequests(WeightVals)
    \/ ContactRequests(Procs, ExternalIds, Names, AnySourceIds, Payloads, MaxContacts)
    \/ LeadBackfill(Procs)
    \/ StatusRequests(Statuses)

Spec == Init /\ [][Next]_vars

\* Selection: every weight, load limit and status; contact creations run
\* one at a time, for one unnamed lead
NextSelect ==
    \/ SourceRequests(MaxSources)
    \/ OperatorRequests(LoadLimits)
    \/ WeightRequests(WeightVals)
    \/ ContactRequests({1}, {"u1"}, {NoStr}, SourceIds, {NoStr}, MaxContacts)
    \/ StatusRequests(Statuses)

SpecSelect == Init /\ [][NextSelect]_vars

\* The lead registry: concurrent contact creations over every external id
\* and name, one more of them than in the other specifications; no operators
NextLead ==
    \/ SourceRequests(MaxSources)
    \/ ContactRequests(Procs, ExternalIds, Names, AnySourceIds, {NoStr}, MaxContacts + 1)
    \/ LeadBackfill(Procs)

SpecLead == Init /\ [][NextLead]_vars

\* Concurrent contact creations while no load limit is lowered and no
\* contact is reopened: one load limit, contacts are only closed
NextRace ==
    \/ SourceRequests(MaxSources)
    \/ OperatorRequests({1})
    \/ WeightRequests({1})
    \/ ContactRequests(Procs, {"u1"}, {NoStr}, SourceIds, {NoStr}, MaxContacts)
    \/ StatusRequests({"closed"})

SpecRace == Init /\ [][NextRace]_vars

\* The contact ledger: concurrent contact creations with and without a
\* payload, contacts closed and reopened; one load limit, one weight
NextLedger ==
    \/ SourceRequests(MaxSources)
    \/ OperatorRequests({1})
    \/ WeightRequests({1})
    \/ ContactRequests(Procs, {"u1"}, {NoStr}, SourceIds, Payloads, MaxContacts)
    \/ StatusRequests(Statuses)

SpecLedger == Init /\ [][NextLedger]_vars

\* Sequential use: contact creations run one at a time, one more of them
\* than in the other specifications; load limits are only raised and
\* contacts only closed; weights 0 and 1
NextSequential ==
    \/ SourceRequests(MaxSources)
    \/ OperatorRequestsRaising(LoadLimits)
    \/ WeightRequests({0, 1})
    \/ ContactRequests({1}, {"u1"}, {NoStr}, SourceIds, {NoStr}, MaxContacts + 1)
    \/ StatusRequests({"closed"})

SpecSequential == Init /\ [][NextSequential]_vars

\* Source affinity: one source more than in the other specifications, so
\* that an operator can be weighted for the one and not for the other;
\* operators are deactivated and reactivated; one load limit, one weight
NextAffinity ==
    \/ SourceRequests(MaxSources + 1)
    \/ OperatorRequests({MaxLimit})
    \/ WeightRequests({1})
    \/ ContactRequests(Procs, {"u1"}, {NoStr}, AnySourceIds, {NoStr}, MaxContacts)
    \/ StatusRequests({"closed"})

SpecAffinity == Init /\ [][NextAffinity]_vars

\* Load limits raised and lowered while contact creations run one at a time,
\* one more of them than in the other specifications, and contacts are only
\* closed: an operator has more active contacts than its limit only after
\* the limit was lowered
NextLimit ==
    \/ SourceRequests(MaxSources)
    \/ OperatorRequests(LoadLimits)
    \/ WeightRequests({1})
    \/ ContactRequests({1}, {"u1"}, {NoStr}, SourceIds, {NoStr}, MaxContacts + 1)
    \/ StatusRequests({"closed"})

SpecLimit == Init /\ [][NextLimit]_vars

\* The selection called on its own, for the existing sources and for a
\* source id that is not in the table; one load limit, weights 0 and 1
NextDirect ==
    \/ SourceRequests(MaxSources)
    \/ OperatorRequests({1})
    \/ WeightRequests({0, 1})
    \/ SelectRequests(Procs, AnySourceIds)

SpecDirect == Init /\ [][NextDirect]_vars

----------------------------------------------------------------------------
(* Properties of the selection engine *)

\* worker p returns from choose_operator_for_source in this step
Chooses(p) == req[p].pc = "choose" /\ req'[p].pc = "insert"

\* the operators with a Weight row for the source
WeightedFor(sid) == {o \in DOMAIN operators : <<o, sid>> \in DOMAIN weights}

\* the operators the specification lets the selection return for the source:
\* active, weight > 0, active count below the load limit
Eligible(sid) ==
    {o \in DOMAIN operators :
        /\ <<o, sid>> \in DOMAIN weights
        /\ operators[o].is_active
        /\ weights[<<o, sid>>] > 0
        /\ ActiveCount(o) < operators[o].load_limit}

\* C1: the operator a selection returns has, in the store the selection
\* reads, fewer active contacts than its load_limit; and when the only
\* operator weighted for the source has load_limit 1 and one active contact,
\* the selection returns none.
C1_CapacityExclusion ==
    [][\A p \in Procs : Chooses(p) =>
          LET o   == req'[p].operator_id
              sid == req[p].source_id
          IN  /\ o # NoId => ActiveCount(o) < operators[o].load_limit
              /\ (\E q \in DOMAIN operators :
                     /\ WeightedFor(sid) = {q}
                     /\ operators[q].load_limit = 1
                     /\ ActiveCount(q) = 1) => o = NoId]_vars

\* C1 witness: a selection has returned none while the only operator weighted
\* for the source is active, has a positive weight, load_limit 1 and one
\* active contact
C1_Witness ==
    \E p \in Procs, q \in DOMAIN operators :
        /\ req[p].pc = "insert"
        /\ req[p].operator_id = NoId
        /\ WeightedFor(req[p].source_id) = {q}
        /\ operators[q].is_active
        /\ weights[<<q, req[p].source_id>>] > 0
        /\ operators[q].load_limit = 1
        /\ ActiveCount(q) = 1

\* the cumulative weight of the first i candidates
RECURSIVE Cumulative(_, _)
Cumulative(cands, i) ==
    IF i = 0 THEN 0 ELSE Cumulative(cands, i - 1) + cands[i][2]

\* C2: for a non-empty candidate list and a draw r in [0, total], the
\* operator returned is the first candidate, in iteration order, whose
\* cumulative weight is >= r; with weights 1 and 3 and r = 2.5 it is the
\* weight-3 operator, in either order.
C2_WeightedChoice ==
    \A p \in Procs :
        (req[p].pc = "insert" /\ req[p].candidates # <<>>) =>
            LET c == req[p].candidates
                r == req[p].r
            IN  /\ \E i \in DOMAIN c :
                      /\ c[i][1] = req[p].operator_id
                      /\ Cumulative(c, i) * RScale >= r
                      /\ \A j \in 1..(i - 1) : Cumulative(c, j) * RScale < r
                /\ (/\ Len(c) = 2
                    /\ {c[1][2], c[2][2]} = {1, 3}
                    /\ 2 * r = 5 * RScale) =>
                       \E i \in DOMAIN c : c[i][1] = req[p].operator_id /\ c[i][2] = 3

\* C2 witness: candidates of weight 1 then 3, the draw 2.5, and the weight-3
\* operator returned
C2_Witness ==
    \E p \in Procs :
        /\ req[p].pc = "insert"
        /\ Len(req[p].candidates) = 2
        /\ req[p].candidates[1][2] = 1
        /\ req[p].candidates[2][2] = 3
        /\ 2 * req[p].r = 5 * RScale
        /\ req[p].operator_id = req[p].candidates[2][1]

\* C3: a selection returns none exactly when no operator of the source is
\* active with a positive weight and below its load limit, and otherwise
\* returns one of those operators, whatever the draw.
C3_NoneIffNoCandidate ==
    [][\A p \in Procs : Chooses(p) =>
          LET o == req'[p].operator_id
              E == Eligible(req[p].source_id)
          IN  /\ o = NoId <=> E = {}
              /\ o # NoId => o \in E]_vars

\* C3 witness: a selection over two eligible operators has returned one of
\* them on the largest draw, r = total
C3_Witness ==
    \E p \in Procs :
        /\ req[p].pc = "insert"
        /\ Cardinality(Eligible(req[p].source_id)) = 2
        /\ Len(req[p].candidates) = 2
        /\ req[p].r = SumWeights(req[p].candidates) * RScale
        /\ req[p].operator_id \in Eligible(req[p].source_id)

\* C4: a selection never returns an operator whose weight for the source is
\* <= 0, and returns none when every operator weighted for the source has a
\* weight <= 0.
C4_NonPositiveWeightExcluded ==
    [][\A p \in Procs : Chooses(p) =>
          LET o   == req'[p].operator_id
              sid == req[p].source_id
          IN  /\ o # NoId => weights[<<o, sid>>] > 0
              /\ (\A q \in WeightedFor(sid) : weights[<<q, sid>>] <= 0) => o = NoId]_vars

\* C4 witness: set_weight has stored a weight <= 0 for the only operator
\* weighted for the source, which is active and below its load limit, and a
\* selection for the source has returned none
C4_Witness ==
    \E p \in Procs, q \in DOMAIN operators :
        /\ req[p].pc = "insert"
        /\ req[p].operator_id = NoId
        /\ WeightedFor(req[p].source_id) = {q}
        /\ weights[<<q, req[p].source_id>>] <= 0
        /\ operators[q].is_active
        /\ ActiveCount(q) < operators[q].load_limit

----------------------------------------------------------------------------
(* Properties of the lead registry *)

\* worker p runs the lead query of get_or_create_lead in this step
LooksUp(p) == req[p].pc = "idle" /\ req'[p].pc # "idle"

\* worker p has returned from get_or_create_lead
HoldsLead(p) == req[p].pc \in {"choose", "insert"}

\* C5: no two leads share an external_id; a lead keeps its identity and its
\* external_id; a call whose external_id has a lead when it looks it up goes
\* on with that lead; every call that returns from get_or_create_lead
\* returns the one lead of its external_id; every contact references a lead.
C5_LeadIdempotence ==
    [][/\ \A i, j \in DOMAIN leads' :
             leads'[i].external_id = leads'[j].external_id => i = j
       /\ \A i \in DOMAIN leads :
             i \in DOMAIN leads' /\ leads'[i].external_id = leads[i].external_id
       /\ \A p \in Procs :
             (LooksUp(p) /\ ExternalIdTaken(req'[p].external_id)) =>
                 /\ req'[p].pc \in {"choose", "lead_update"}
                 /\ req'[p].lead_id \in DOMAIN leads
                 /\ leads[req'[p].lead_id].external_id = req'[p].external_id
       /\ \A p \in Procs :
             (req'[p].pc \in {"choose", "insert"}) =>
                 /\ req'[p].lead_id \in DOMAIN leads'
                 /\ leads'[req'[p].lead_id].external_id = req'[p].external_id
       /\ \A c \in DOMAIN contacts' : contacts'[c].lead_id \in DOMAIN leads']_vars

\* C5 witness: three contacts were created, two external ids were supplied,
\* two leads exist and two of the contacts share a lead
C5_Witness ==
    /\ Len(leads) = 2
    /\ Len(contacts) = 3
    /\ \E c, d \in DOMAIN contacts : c # d /\ contacts[c].lead_id = contacts[d].lead_id
    /\ \E c, d \in DOMAIN contacts : contacts[c].lead_id # contacts[d].lead_id

\* a call that read lead l with a falsy name and has its UPDATE pending
BackfillPending(l) ==
    \E p \in Procs : req[p].pc = "lead_update" /\ req[p].lead_id = l

C7_DuplicateLeadRaceHandled ==
    \A p \in Procs : resp[p] # "integrity_error"

----------------------------------------------------------------------------
(* Properties of the contact ledger *)

\* worker p commits its contact INSERT (or ends its request) in this step
Inserts(p) == req[p].pc = "insert" /\ req'[p].pc = "idle"

\* C8: the contact INSERT stores the operator chosen at the earlier read
\* without reading the count again: when the operator has reached its
\* load_limit in between, the INSERT takes its active count above the limit.
C8_ConcurrentOverbooking ==
    [][\A p \in Procs : Inserts(p) =>
          LET o == req[p].operator_id
          IN  /\ Len(contacts') = Len(contacts) + 1
              /\ contacts'[Len(contacts')].operator_id = o
              /\ (o # NoId /\ ActiveCount(o) >= operators[o].load_limit) =>
                     ActiveCountIn(contacts', o) > operators'[o].load_limit]_vars

\* C8 witness: an operator holds more active contacts than its load_limit
\* (under SpecRace no load limit is lowered and no contact is reopened)
C8_Witness ==
    \E o \in DOMAIN operators : ActiveCount(o) > operators[o].load_limit

\* C9: a selection with no eligible operator returns none without ending
\* the request, and the request then stores exactly one new contact with no
\* operator, status active, the lead of its external_id and its source, and
\* answers with that contact.
C9_UnassignedContactPersists ==
    [][\A p \in Procs :
          /\ (Chooses(p) /\ Eligible(req[p].source_id) = {}) =>
                 /\ req'[p].operator_id = NoId
                 /\ resp'[p] = "pending"
          /\ (req[p].pc = "insert" /\ req[p].operator_id = NoId /\ req'[p] # req[p]) =>
                 /\ Len(contacts') = Len(contacts) + 1
                 /\ SubSeq(contacts', 1, Len(contacts)) = contacts
                 /\ LET c == contacts'[Len(contacts')]
                    IN  /\ c.operator_id = NoId
                        /\ c.status = "active"
                        /\ c.lead_id # NoId
                        /\ c.lead_id = LeadByExternalId(req[p].external_id)
                        /\ c.source_id = req[p].source_id
                        /\ c.source_id \in sources
                 /\ resp'[p] = "ok"]_vars

\* C9 witness: a request has been answered with its contact, stored active
\* and without an operator, for a source that has no eligible operator
C9_Witness ==
    \E p \in Procs, c \in DOMAIN contacts :
        /\ resp[p] = "ok"
        /\ contacts[c].operator_id = NoId
        /\ contacts[c].status = "active"
        /\ Eligible(contacts[c].source_id) = {}

\* C10 as claimed: once a contact is closed it is closed in every later state.
C10_ClosedStaysClosed ==
    [][\A c \in DOMAIN contacts :
          contacts[c].status = "closed" => contacts'[c].status = "closed"]_vars

\* C10 as amended: every contact is created active, and its status changes
\* only by an update_contact_status request for it, to the status requested,
\* active or closed.
C10_StatusLifecycle ==
    [][/\ \A c \in DOMAIN contacts' \ DOMAIN contacts : contacts'[c].status = "active"
       /\ \A c \in DOMAIN contacts :
             contacts'[c].status # contacts[c].status =>
                 \E st \in Statuses : update_contact_status(c, st)]_vars

\* C10 witness: a contact has been closed while another one is active
C10_Witness ==
    \E c, d \in DOMAIN contacts :
        contacts[c].status = "closed" /\ contacts[d].status = "active"

----------------------------------------------------------------------------
(* C11 *)

\* the request of worker p is answered with 404 "Source not found"
SourceRejected(p) == resp[p] # "not_found" /\ resp'[p] = "not_found"

\* C11: create_contact for a source_id that is not in the sources table is
\* answered "not found" and changes nothing: the step that gives the answer
\* leaves leads (no row added, no name filled in), contacts and every other
\* table as they were and the worker idle; and no request goes on to the lead
\* lookup, nor is any contact stored, for a source that does not exist.
C11_SourceNotFoundChangesNothing ==
    [][ /\ \A p \in Procs :
             SourceRejected(p) => /\ UNCHANGED store
                                  /\ req[p].pc = "idle"
                                  /\ UNCHANGED req
        /\ \A p \in Procs : LooksUp(p) => req'[p].source_id \in sources
        /\ \A c \in DOMAIN contacts' : contacts'[c].source_id \in sources'
      ]_vars

\* one request was answered "not found" while the tables hold a lead but no
\* contact, and the other worker answered a request for an existing source
C11_Witness ==
    \E p, q \in Procs :
        /\ resp[p] = "not_found"
        /\ req[p].pc = "idle"
        /\ resp[q] = "pending"
        /\ Len(leads) = 1
        /\ contacts = <<>>

----------------------------------------------------------------------------
(* C12 *)

\* the deterministic sequence in the place of random.uniform: every multiple
\* of 1/RScale in [0, total), each once
Samples(total) == 0..(total * RScale - 1)

\* the number of samples for which candidate i of cands is returned
Hits(cands, i) ==
    Cardinality({r \in Samples(SumWeights(cands)) :
                    PickOperator(cands, r) = cands[i][1]})

\* C12: for every candidate list a selection works on, in whatever order the
\* rows came, and every candidate i in it: of the total * RScale samples that
\* cover [0, total) uniformly, the number that return candidate i is
\* weight(i) * RScale, give or take the one sample that lies on the boundary
\* of its interval; so the fraction of the draws that return it is
\* weight(i) / total within one sample.
C12_ProportionalToWeight ==
    \A p \in Procs :
        (req[p].pc = "insert" /\ req[p].candidates # <<>>) =>
            LET c == req[p].candidates
            IN  /\ \A i \in DOMAIN c :
                      /\ Hits(c, i) >= c[i][2] * RScale - 1
                      /\ Hits(c, i) <= c[i][2] * RScale + 1
                /\ \A r \in Samples(SumWeights(c)) :
                      \E i \in DOMAIN c : PickOperator(c, r) = c[i][1]

\* candidates of weight MaxWeight and 1: of the (MaxWeight + 1) * RScale
\* samples the first is returned for MaxWeight * RScale + 1 (the sample on
\* the boundary goes to it) and the second for the RScale - 1 others
C12_Witness ==
    \E p \in Procs :
        /\ req[p].pc = "insert"
        /\ Len(req[p].candidates) = 2
        /\ req[p].candidates[1][2] = MaxWeight
        /\ req[p].candidates[2][2] = 1
        /\ Hits(req[p].candidates, 1) = MaxWeight * RScale + 1
        /\ Hits(req[p].candidates, 2) = RScale - 1

----------------------------------------------------------------------------
(* C13 *)

\* the fields of a contact that update_contact_status does not assign
Assignment(c) ==
    [lead_id |-> c.lead_id, source_id |-> c.source_id,
     operator_id |-> c.operator_id, payload |-> c.payload,
     created_at |-> c.created_at]

\* C13: a step that changes the status of a contact changes nothing else:
\* that contact keeps its operator_id, lead_id, source_id, payload and
\* created_at, every other contact is untouched, no contact is added, and
\* leads, operators, sources and weights (and the requests in flight) are
\* as before.  And no step of any request changes or removes the operator_id
\* (or lead, source, payload, creation time) of a stored contact: a contact
\* references the same operator, or none, in every state after its creation.
C13_StatusUpdateFrame ==
    [][ /\ \A c \in DOMAIN contacts :
             /\ c \in DOMAIN contacts'
             /\ Assignment(contacts'[c]) = Assignment(contacts[c])
        /\ \A c \in DOMAIN contacts :
             contacts'[c].status # contacts[c].status =>
                 /\ DOMAIN contacts' = DOMAIN contacts
                 /\ \A d \in DOMAIN contacts \ {c} : contacts'[d] = contacts[d]
                 /\ UNCHANGED <<operators, sources, weights, leads, clock, req, resp>>
      ]_vars

\* a closed contact that still holds its operator and its payload, beside an
\* active contact of the same lead, while an operator has been deactivated
C13_Witness ==
    \E c, d \in DOMAIN contacts :
        /\ contacts[c].status = "closed"
        /\ contacts[c].operator_id # NoId
        /\ contacts[c].payload = "text"
        /\ ~operators[contacts[c].operator_id].is_active
        /\ contacts[d].status = "active"

----------------------------------------------------------------------------
(* C14 *)

----------------------------------------------------------------------------
(* C15 *)

\* operator o is active and has a Weight row for source sid
ActiveAndWeighted(o, sid) ==
    /\ o \in DOMAIN operators
    /\ operators[o].is_active
    /\ <<o, sid>> \in DOMAIN weights

\* C15: the operator choose_operator_for_source returns, and every candidate
\* it draws from, is active in the store the call reads and has a Weight row
\* for the source_id of the call: an operator deactivated by update_operator
\* or weighted only for other sources is never returned.  The contact then
\* stored carries that operator and that source, so every contact created
\* with an operator references one that was active and weighted for the
\* contact's own source when it was selected.
C15_ActiveAndWeightedForSource ==
    [][ /\ \A p \in Procs :
             Chooses(p) =>
                 LET sid == req[p].source_id
                 IN  /\ req'[p].source_id = sid
                     /\ req'[p].operator_id # NoId =>
                            ActiveAndWeighted(req'[p].operator_id, sid)
                     /\ \A i \in DOMAIN req'[p].candidates :
                            ActiveAndWeighted(req'[p].candidates[i][1], sid)
        /\ \A p \in Procs :
             Inserts(p) =>
                 /\ contacts'[Len(contacts')].operator_id = req[p].operator_id
                 /\ contacts'[Len(contacts')].source_id = req[p].source_id
      ]_vars

\* a selection for one source returned an operator while the other operator,
\* active and with room, is weighted for the other source only
C15_Witness ==
    \E p \in Procs, o, q \in DOMAIN operators, s2 \in sources :
        /\ req[p].pc = "insert"
        /\ req[p].operator_id = o
        /\ q # o
        /\ s2 # req[p].source_id
        /\ operators[q].is_active
        /\ ActiveCount(q) < operators[q].load_limit
        /\ <<q, s2>> \in DOMAIN weights
        /\ <<q, req[p].source_id>> \notin DOMAIN weights

----------------------------------------------------------------------------
(* C16 *)

\* C16: for every non-empty candidate list a selection works on and every
\* draw r with 0 <= r < total, the accumulation loop returns at one of the
\* candidates: it never runs off the end of the list, so the "return the
\* last candidate" line after the loop is not reached; and the operator a
\* selection with such a draw returned is the one the loop returned at.
C16_FallbackUnreachable ==
    \A p \in Procs :
        (req[p].pc = "insert" /\ req[p].candidates # <<>>) =>
            LET c == req[p].candidates
            IN  /\ \A r \in Samples(SumWeights(c)) :
                      PickLoop(c, 1, 0, r) \in DOMAIN c
                /\ req[p].r \in Samples(SumWeights(c)) =>
                      req[p].operator_id = c[PickLoop(c, 1, 0, req[p].r)][1]

\* two candidates and the largest draw below the total: the loop returns at
\* the last candidate
C16_Witness ==
    \E p \in Procs :
        /\ req[p].pc = "insert"
        /\ Len(req[p].candidates) = 2
        /\ req[p].r = SumWeights(req[p].candidates) * RScale - 1
        /\ PickLoop(req[p].candidates, 1, 0, req[p].r) = 2
        /\ req[p].operator_id = req[p].candidates[2][1]

----------------------------------------------------------------------------
(* C17 *)

\* the contacts of cs that are assigned to operator o and active
OpenContacts(cs, o) ==
    {c \in DOMAIN cs : cs[c].operator_id = o /\ cs[c].status = "active"}

\* operator o is active and has a positive weight for source sid
Offered(o, sid) ==
    /\ operators[o].is_active
    /\ <<o, sid>> \in DOMAIN weights
    /\ weights[<<o, sid>>] > 0

\* C17: closed contacts never count toward an operator's load: a selection
\* has among its candidates every active, positively weighted operator whose
\* active contacts alone are fewer than its load_limit, whatever the number
\* of its closed contacts.  And when such an operator is excluded only
\* because it has load_limit active contacts, the step that closes one of
\* them leaves it with fewer active contacts than its load_limit, still
\* active and weighted: the next selection for the source has it as a
\* candidate.
C17_ClosingFreesCapacity ==
    [][ /\ \A p \in Procs :
             Chooses(p) =>
                 \A o \in DOMAIN operators :
                     (/\ Offered(o, req[p].source_id)
                      /\ Cardinality(OpenContacts(contacts, o)) < operators[o].load_limit)
                     => \E i \in DOMAIN req'[p].candidates :
                            req'[p].candidates[i][1] = o
        /\ \A c \in DOMAIN contacts, sid \in sources :
             LET o == contacts[c].operator_id
             IN  (/\ contacts[c].status = "active"
                  /\ contacts'[c].status = "closed"
                  /\ o # NoId
                  /\ Offered(o, sid)
                  /\ Cardinality(OpenContacts(contacts, o)) = operators[o].load_limit)
                 => /\ o \notin Eligible(sid)
                    /\ OpenContacts(contacts', o) = OpenContacts(contacts, o) \ {c}
                    /\ (o \in Eligible(sid))'
      ]_vars

\* an operator with load_limit 1 whose one contact was closed is returned by
\* the selection for the next contact
C17_Witness ==
    \E p \in Procs, c \in DOMAIN contacts :
        /\ req[p].pc = "insert"
        /\ req[p].operator_id # NoId
        /\ contacts[c].operator_id = req[p].operator_id
        /\ contacts[c].status = "closed"
        /\ operators[req[p].operator_id].load_limit = 1

----------------------------------------------------------------------------
(* C18 *)

\* the load limit of operator o is lowered in this step
Lowers(o) == operators'[o].load_limit < operators[o].load_limit

\* C18: a step that lowers an operator's load_limit, also below the number
\* of its active contacts, leaves every contact's operator_id and status
\* (the whole contacts table) unchanged, so the operator may then hold more
\* active contacts than its limit; and no selection returns, or has among
\* its candidates, an operator whose active contacts are not strictly fewer
\* than its load_limit at the call: the operator stays excluded until enough
\* of its contacts have been closed.
C18_LimitNotRetroactive ==
    [][ /\ \A o \in DOMAIN operators :
             Lowers(o) => /\ UNCHANGED contacts
                          /\ OpenContacts(contacts', o) = OpenContacts(contacts, o)
        /\ \A p \in Procs :
             Chooses(p) =>
                 \A o \in DOMAIN operators :
                     Cardinality(OpenContacts(contacts, o)) >= operators[o].load_limit
                     => /\ req'[p].operator_id # o
                        /\ \A i \in DOMAIN req'[p].candidates :
                               req'[p].candidates[i][1] # o
      ]_vars

\* an operator holds more active contacts than its lowered limit, and a
\* selection for a source it is active and weighted for returned none
C18_Witness ==
    \E p \in Procs, o \in DOMAIN operators :
        /\ Cardinality(OpenContacts(contacts, o)) > operators[o].load_limit
        /\ req[p].pc = "insert"
        /\ req[p].operator_id = NoId
        /\ Offered(o, req[p].source_id)

----------------------------------------------------------------------------
(* C19 *)

\* C19: choose_operator_for_source called with a source_id that is not in
\* the sources table gives an explicit source-not-found answer, one the
\* caller can tell from the "none" it gives for an existing source without
\* an eligible operator.
C19_TypedSourceNotFound ==
    [][ \A p \in Procs, sid \in AnySourceIds \ sources :
            choose_operator_call(p, sid, <<>>, 0) => resp'[p] # "selected_none"
      ]_vars

====
